---- MODULE Spec2Model ----
(***************************************************************************)
(* Threat Bus plugins: the in-memory backbone, the RabbitMQ backbone and   *)
(* the Zeek app plugin with its STIX-2 -> Zeek Intel mapping.              *)
(*                                                                         *)
(* Python strings are modelled as sequences of one-character strings, so   *)
(* that str.startswith, concatenation, slicing and len are computed.       *)
(***************************************************************************)
EXTENDS Integers, Sequences, FiniteSets, TLC

\* ------------------------------------------------------------------ bounds

MaxMsgs == 2        \* messages / deliveries produced in one behaviour
MaxCalls == 3       \* backbone subscribe / unsubscribe calls in one behaviour
MaxQueues == 2      \* inboxes (JoinableQueue objects) in one behaviour
MaxTopicsPerCall == 2   \* length of the `topics` list of one in-memory call

Queues == 1..MaxQueues

\* ------------------------------------------------------------------ strings

StartsWith(s, p) == Len(p) <= Len(s) /\ SubSeq(s, 1, Len(p)) = p

ascii_lowercase == <<"a","b","c","d","e","f","g","h","i","j","k","l","m","n","o","p","q","r","s","t","u","v","w","x","y","z">>

ascii_uppercase == <<"A","B","C","D","E","F","G","H","I","J","K","L","M","N","O","P","Q","R","S","T","U","V","W","X","Y","Z">>

LowerChar(c) ==
    IF \E i \in 1..26 : ascii_uppercase[i] = c
    THEN ascii_lowercase[CHOOSE i \in 1..26 : ascii_uppercase[i] = c]
    ELSE c

Lower(s) == [i \in 1..Len(s) |-> LowerChar(s[i])]

\* type(msg).__name__ of the message classes
MsgTypes == {"Intel", "Indicator", "Sighting", "SnapshotRequest", "SnapshotEnvelope"}

ClassName(type) ==
    CASE type = "Intel" -> <<"I","n","t","e","l">>
      [] type = "Indicator" -> <<"I","n","d","i","c","a","t","o","r">>
      [] type = "Sighting" -> <<"S","i","g","h","t","i","n","g">>
      [] type = "SnapshotRequest" -> <<"S","n","a","p","s","h","o","t","R","e","q","u","e","s","t">>
      [] type = "SnapshotEnvelope" -> <<"S","n","a","p","s","h","o","t","E","n","v","e","l","o","p","e">>

\* ------------------------------------------------------------------ topics

inmem_topic_prefix == <<"t","e","n","z","i","r","/","t","h","r","e","a","t","b","u","s","/">>

topic_intel == <<"t","h","r","e","a","t","b","u","s","/","i","n","t","e","l">>

topic_sightings == <<"t","h","r","e","a","t","b","u","s","/","s","i","g","h","t","i","n","g","s">>

topic_snapshotrequest == <<"t","h","r","e","a","t","b","u","s","/","s","n","a","p","s","h","o","t","r","e","q","u","e","s","t">>

topic_snapshotenvelope == <<"t","h","r","e","a","t","b","u","s","/","s","n","a","p","s","h","o","t","e","n","v","e","l","o","p","e">>

\* Topics that subscribers ask for.
SubTopic_threatbus == <<"t","h","r","e","a","t","b","u","s","/">>

SubTopic_t == <<"t">>

SubTopics == {SubTopic_threatbus, topic_intel, SubTopic_t}

\* ------------------------------------------------------------------ state

VARIABLES
    backbone,       \* which backbone plugin runs: "inmem" or "rabbitmq"
    subscriptions,  \* the backbone's defaultdict(set): topic -> set of queues
    lock,           \* the backbone's threading.Lock: "free" or its holder
    inq,            \* the queue handed to the backbone's run()
    inbox,          \* contents of every subscriber queue (outq / p2p_q)
    worker,         \* the thread that reads inq (in-memory provision thread,
                    \* RabbitMQ publisher thread): pc, msg, topic
    consumer,       \* RabbitMQ consumer thread: pc, queue, body, msg, topic
    rq,             \* RabbitMQ: deliveries waiting in each bound queue
    acked,          \* RabbitMQ: deliveries passed to basic_ack, in order
    nmsg,           \* messages / deliveries produced so far
    ncalls,         \* backbone subscribe / unsubscribe calls made so far
    lastCall,       \* the most recent backbone call and how it ended
    hist,           \* observer: per queue, topics subscribed / unsubscribed;
                    \* ids of the messages whose fan-out has run; the calls
                    \* of basic_publish, in order
    zsubs,          \* Zeek plugin's `subscriptions` dict: p2p_topic -> queue, in insertion order
    zlock,          \* Zeek plugin's threading.Lock: "free" or its holder
    mgmt,           \* Zeek manage thread: pc, task, p2p_topic, q, threatbus_topic
    pub,            \* Zeek publish thread: pc, qt_lookup, ready; observer: the
                    \* readers handled since the last copy of the dict
    endpoint,       \* everything handed to ep.publish, in order
    nextq,          \* JoinableQueue objects created so far
    nevents,        \* management events received so far
    born            \* observer: per queue, what had happened when it was subscribed,
                    \* whether its entry was deleted, and how often publish
                    \* called get() and task_done() on it

bvars == <<backbone, subscriptions, lock, inq, inbox, worker, consumer, rq,
           acked, nmsg, ncalls, lastCall, hist>>

zvars == <<zsubs, zlock, mgmt, pub, endpoint, nextq, nevents, born>>

vars == <<bvars, zvars>>

\* ------------------------------------------------------------------ registry

\* Mutant: subscriptions is a plain dict, a missing key raises KeyError.
GetItem_plain_dict(subs, topic) ==
    [dict |-> subs, raised |-> topic \notin DOMAIN subs]

\* subscriptions[topic] on a defaultdict(set): a missing key is inserted
\* with an empty set, and the lookup never raises KeyError.
GetItem(subs, topic) ==
    [dict |-> IF topic \in DOMAIN subs THEN subs
              ELSE [k \in DOMAIN subs \cup {topic} |->
                        IF k = topic THEN {} ELSE subs[k]],
     raised |-> FALSE]

\* The (topic, queue) pairs that are registered.
Pairs(subs) == {p \in (DOMAIN subs) \X Queues : p[2] \in subs[p[1]]}

Registered(subs, q) == \E t \in DOMAIN subs : q \in subs[t]

RECURSIVE inmem_subscribe(_, _, _)
inmem_subscribe(subs, topics, q) ==
    IF topics = {} THEN [dict |-> subs, raised |-> FALSE]
    ELSE LET topic == CHOOSE t \in topics : TRUE
             got == GetItem(subs, topic)
         IN  IF got.raised THEN [dict |-> subs, raised |-> TRUE]
             ELSE inmem_subscribe([got.dict EXCEPT ![topic] = @ \cup {q}],
                                  topics \ {topic}, q)

\* Mutant: the loop over `topics` returns after one topic.
inmem_unsubscribe_one_topic(subs, topics, q) ==
    IF topics = {} THEN [dict |-> subs, raised |-> FALSE]
    ELSE LET topic == CHOOSE t \in topics : \A u \in topics : Len(u) <= Len(t)
             got == GetItem(subs, topic)
         IN  [dict |-> [got.dict EXCEPT ![topic] = @ \ {q}], raised |-> FALSE]

RECURSIVE inmem_unsubscribe(_, _, _)
inmem_unsubscribe(subs, topics, q) ==
    IF topics = {} THEN [dict |-> subs, raised |-> FALSE]
    ELSE LET topic == CHOOSE t \in topics : TRUE
             got == GetItem(subs, topic)
         IN  IF got.raised THEN [dict |-> subs, raised |-> TRUE]
             ELSE inmem_unsubscribe(
                      IF q \in got.dict[topic]
                      THEN [got.dict EXCEPT ![topic] = @ \ {q}]
                      ELSE got.dict,
                      topics \ {topic}, q)

rabbitmq_subscribe(subs, topic, q) ==
    LET got == GetItem(subs, topic)
    IN  IF got.raised THEN [dict |-> subs, raised |-> TRUE]
        ELSE [dict |-> [got.dict EXCEPT ![topic] = @ \cup {q}], raised |-> FALSE]

rabbitmq_unsubscribe(subs, topic, q) ==
    LET got == GetItem(subs, topic)
    IN  IF got.raised THEN [dict |-> subs, raised |-> TRUE]
        ELSE [dict |-> IF q \in got.dict[topic]
                       THEN [got.dict EXCEPT ![topic] = @ \ {q}]
                       ELSE got.dict,
              raised |-> FALSE]

\* ------------------------------------------------------------------ fan-out

\* Mutant: a key matches only when it equals the topic.
MatchingTopics_equal(subs, topic) == {t \in DOMAIN subs : t = topic}

\* filter(lambda t: str(topic).startswith(str(t)), subscriptions.keys())
MatchingTopics(subs, topic) == {t \in DOMAIN subs : StartsWith(topic, t)}

\* for t in <matching>: for outq in subscriptions[t]: outq.put(msg)
\* One put per matching key that holds the queue.
Puts(subs, topic, q) ==
    Cardinality({t \in MatchingTopics(subs, topic) : q \in subs[t]})

FanOut(subs, topic, msg, boxes) ==
    [q \in DOMAIN boxes |->
        boxes[q] \o [i \in 1..Puts(subs, topic, q) |-> msg]]

\* topic = f"tenzir/threatbus/{type(msg).__name__.lower()}"
inmem_topic(msg) == inmem_topic_prefix \o Lower(ClassName(msg.type))

\* ------------------------------------------------------------------ STIX-2 -> Zeek

(***************************************************************************)
(* A pattern string is a sequence of atoms.  The characters that the       *)
(* mapping looks at stand alone: "[", "]", "=", "'", " ", ":", "/" and     *)
(* the URL schemes "http://" and "https://"; every other atom is a run of  *)
(* characters that holds none of them.                                     *)
(***************************************************************************)

pattern_domain ==
    <<"[", "domain-name", ":", "value", " ", "=", " ", "'", "evil.com", "'", "]">>

pattern_subnet ==
    <<"[", "ipv4-addr", ":", "value", " ", "=", " ", "'", "10.0.0.0", "/", "8", "'", "]">>

pattern_url ==
    <<"[", "url", ":", "value", " ", "=", " ", "'", "https://", "evil.example", "/", "'", "]">>

pattern_compound ==
    <<"[", "domain-name", ":", "value", " ", "=", " ", "'", "a.com", "'", "]",
      " ", "AND", " ", "[", "url", ":", "value", " ", "=", " ", "'", "x", "'", "]">>

pattern_unmapped ==
    <<"[", "mutex", ":", "name", " ", "=", " ", "'", "m", "'", "]">>

pattern_equals_in_literal ==
    <<"[", "url", ":", "value", " ", "=", " ", "'", "evil.example", "/", "?a", "=", "b", "'", "]">>

Count(s, a, i) == Cardinality({j \in 1..(i - 1) : s[j] = a})

InQuotes(s, i) == Count(s, "'", i) % 2 = 1

Depth(s, i) == Count(s, "[", i) - Count(s, "]", i)

\* Pattern(pattern_str).inspect(): the comparisons by object type, the
\* observation operators and the qualifiers of the pattern.
inspect(pattern) ==
    LET ops == {i \in 1..Len(pattern) :
                    /\ pattern[i] \in {"=", "!=", "<", ">", "<=", ">=", "IN", "LIKE", "MATCHES"}
                    /\ ~InQuotes(pattern, i)
                    /\ Depth(pattern, i) = 1}
        typeOf(i) == pattern[(CHOOSE j \in 1..i :
                                  /\ pattern[j] = ":"
                                  /\ ~InQuotes(pattern, j)
                                  /\ \A k \in (j + 1)..i : pattern[k] = ":" => InQuotes(pattern, k)) - 1]
        types == {typeOf(i) : i \in ops}
        first(t) == CHOOSE i \in ops : typeOf(i) = t /\ \A k \in ops : typeOf(k) = t => i <= k
    IN  [comparisons |-> [t \in types |-> <<"path", pattern[first(t)], "value">>],
         observation_ops |-> {pattern[i] : i \in {k \in 1..Len(pattern) :
                                  /\ pattern[k] \in {"AND", "OR", "FOLLOWEDBY"}
                                  /\ ~InQuotes(pattern, k)
                                  /\ Depth(pattern, k) = 0}},
         qualifiers |-> {pattern[i] : i \in {k \in 1..Len(pattern) :
                                  /\ pattern[k] \in {"WITHIN", "REPEATS", "START"}
                                  /\ ~InQuotes(pattern, k)
                                  /\ Depth(pattern, k) = 0}}]

is_point_equality_ioc(pattern_str) ==
    LET il == inspect(pattern_str)
        cybox_types == DOMAIN il.comparisons
    IN  /\ Cardinality(il.observation_ops) = 0
        /\ Cardinality(il.qualifiers) = 0
        /\ Cardinality(DOMAIN il.comparisons) = 1
        /\ Cardinality(cybox_types) = 1
        /\ Len(il.comparisons[CHOOSE t \in cybox_types : TRUE]) = 3
        /\ il.comparisons[CHOOSE t \in cybox_types : TRUE][2] = "="

\* str.split(sep): the pieces between the occurrences of sep.
RECURSIVE Split(_, _)
Split(s, sep) ==
    IF \A i \in 1..Len(s) : s[i] # sep THEN <<s>>
    ELSE LET i == CHOOSE k \in 1..Len(s) : s[k] = sep /\ \A j \in 1..(k - 1) : s[j] # sep
         IN  <<SubSeq(s, 1, i - 1)>> \o Split(SubSeq(s, i + 1, Len(s)), sep)

\* str.strip(): without leading and trailing whitespace.
RECURSIVE Strip(_)
Strip(s) ==
    IF s # <<>> /\ s[1] = " " THEN Strip(Tail(s))
    ELSE IF s # <<>> /\ s[Len(s)] = " " THEN Strip(SubSeq(s, 1, Len(s) - 1))
    ELSE s

zeek_intel_type_map(object_path) ==
    CASE object_path = <<"domain-name", ":", "value">> -> "DOMAIN"
      [] object_path = <<"email-addr", ":", "value">> -> "EMAIL"
      [] object_path = <<"file", ":", "name">> -> "FILE_NAME"
      [] object_path = <<"file", ":", "hashes.MD5">> -> "FILE_HASH"
      [] object_path = <<"file", ":", "hashes.", "'", "SHA-1", "'">> -> "FILE_HASH"
      [] object_path = <<"file", ":", "hashes.", "'", "SHA-256", "'">> -> "FILE_HASH"
      [] object_path = <<"file", ":", "hashes.", "'", "SHA-512", "'">> -> "FILE_HASH"
      [] object_path = <<"file", ":", "hashes.", "'", "SHA3-256", "'">> -> "FILE_HASH"
      [] object_path = <<"file", ":", "hashes.", "'", "SHA3-512", "'">> -> "FILE_HASH"
      [] object_path = <<"file", ":", "hashes.SSDEEP">> -> "FILE_HASH"
      [] object_path = <<"file", ":", "hashes.TLSH">> -> "FILE_HASH"
      [] object_path = <<"ipv4-addr", ":", "value">> -> "ADDR"
      [] object_path = <<"ipv6-addr", ":", "value">> -> "ADDR"
      [] object_path = <<"software", ":", "name">> -> "SOFTWARE"
      [] object_path = <<"url", ":", "value">> -> "URL"
      [] object_path = <<"user", ":", "user_id">> -> "USER_NAME"
      [] object_path = <<"user", ":", "account_login">> -> "USER_NAME"
      [] object_path = <<"x509-certificate", ":", "hashes.", "'", "SHA-1", "'">> -> "CERT_HASH"
      [] OTHER -> "None"

\* re.sub(r"^https?://", "", ioc_value)
StripScheme(ioc_value) ==
    IF ioc_value # <<>> /\ ioc_value[1] \in {"http://", "https://"}
    THEN Tail(ioc_value) ELSE ioc_value

\* re.match(".+/.+", ioc_value)
MatchesSubnet(ioc_value) ==
    \E i \in 1..Len(ioc_value) :
        \/ ioc_value[i] \in {"http://", "https://"}
        \/ ioc_value[i] = "/" /\ 1 < i /\ i < Len(ioc_value)

NoEvent == [name |-> <<>>, args |-> <<>>]

Returned(event) == [raised |-> FALSE, value |-> event]

\* The mapped broker event, None, or the exception the unpacking of the
\* split raises when the pattern body holds more than one "=".
map_indicator_to_broker_event(indicator, module_namespace) ==
    IF indicator.type # "Indicator" THEN Returned(NoEvent)
    ELSE IF ~is_point_equality_ioc(indicator.pattern) THEN Returned(NoEvent)
    ELSE LET parts == Split(SubSeq(indicator.pattern, 2, Len(indicator.pattern) - 1), "=")
         IN  IF Len(parts) # 2 THEN [raised |-> TRUE, value |-> NoEvent]
             ELSE LET object_path == Strip(parts[1])
                      stripped == Strip(parts[2])
                      ioc_value == IF /\ Len(stripped) >= 1
                                      /\ stripped[1] = "'"
                                      /\ stripped[Len(stripped)] = "'"
                                   THEN SubSeq(stripped, 2, Len(stripped) - 1)
                                   ELSE stripped
                      zeek_type == zeek_intel_type_map(object_path)
                  IN  IF zeek_type = "None" THEN Returned(NoEvent)
                      ELSE Returned(
                             [name |-> <<module_namespace, "::", "intel">>,
                              args |-> <<indicator.created, indicator.id,
                                         IF zeek_type = "ADDR" /\ MatchesSubnet(ioc_value)
                                         THEN "SUBNET" ELSE zeek_type,
                                         IF zeek_type = "URL"
                                         THEN StripScheme(ioc_value) ELSE ioc_value,
                                         IF indicator.update = "REMOVE"
                                         THEN "REMOVE" ELSE "ADD">>])

\* map_to_broker dispatches on the message type; only Indicators have a
\* Zeek mapping.
map_to_broker(msg, module_namespace) ==
    map_indicator_to_broker_event(msg, module_namespace)

\* ------------------------------------------------------------------ messages

\* Python None, as a value of the same shape as a message.
NoneMsg == [type |-> "NoneType", id |-> 0, created |-> 0, pattern |-> <<>>, update |-> "None"]

Message(type, id, pattern, update) ==
    [type |-> type, id |-> id, created |-> id, pattern |-> pattern, update |-> update]

\* ------------------------------------------------------------------ RabbitMQ

\* The four queues declared by consume_rabbitmq, by their base name.
RabbitQueues == {"intel", "sightings", "snapshot-requests", "snapshot-envelopes"}

\* The decoder class each consumer callback passes to __decode.
DecoderType(k) ==
    CASE k = "intel" -> "Intel"
      [] k = "sightings" -> "Sighting"
      [] k = "snapshot-requests" -> "SnapshotRequest"
      [] k = "snapshot-envelopes" -> "SnapshotEnvelope"

\* The topic each consumer callback passes to provision.
callback_topic(k) ==
    CASE k = "intel" -> topic_intel
      [] k = "sightings" -> topic_sightings
      [] k = "snapshot-requests" -> topic_snapshotrequest
      [] k = "snapshot-envelopes" -> topic_snapshotenvelope

\* json.loads(msg, cls=decoder): the decoded object, or an exception when
\* the body is not the encoding of a value of the decoder's type.
json_loads(body, type) ==
    IF body.kind = type
    THEN [raised |-> FALSE, value |-> Message(type, body.id, <<>>, "None")]
    ELSE [raised |-> TRUE, value |-> NoneMsg]

\* Mutant: no try / except around json.loads.
decode_uncaught(body, type) == json_loads(body, type)

\* __decode: try json.loads; except Exception: log and return None.
decode(body, type) ==
    LET r == json_loads(body, type)
    IN  IF r.raised THEN [raised |-> FALSE, value |-> NoneMsg] ELSE r

\* ------------------------------------------------------------------ backbone actions

EmptyDict == [t \in {} |-> {}]

NoCall == [op |-> "none", topics |-> {}, q |-> 0, raised |-> FALSE, registered |-> {}]

InitBackbone ==
    /\ subscriptions = EmptyDict
    /\ lock = "free"
    /\ inq = <<>>
    /\ inbox = [q \in Queues |-> <<>>]
    /\ worker = [pc |-> "get", msg |-> NoneMsg, topic |-> <<>>]
    /\ consumer = [pc |-> "idle", queue |-> "none", body |-> [kind |-> "none", id |-> 0],
                   msg |-> NoneMsg, topic |-> <<>>]
    /\ rq = [k \in RabbitQueues |-> <<>>]
    /\ acked = <<>>
    /\ nmsg = 0
    /\ ncalls = 0
    /\ lastCall = NoCall
    /\ hist = [subscribed |-> [q \in Queues |-> {}], unsubscribed |-> [q \in Queues |-> {}],
               fanned |-> {}, published |-> <<>>]
    /\ zsubs = <<>>
    /\ zlock = "free"
    /\ mgmt = [pc |-> "wait", task |-> [kind |-> "None", topic |-> <<>>, snapshot |-> 0],
               p2p_topic |-> <<>>, q |-> 0, threatbus_topic |-> <<>>]
    /\ pub = [pc |-> "acquire", qt_lookup |-> <<>>, ready |-> <<>>, handled |-> {}]
    /\ endpoint = <<>>
    /\ nextq = 0
    /\ nevents = 0
    /\ born = [q \in Queues |-> [arrival |-> 0, fanned |-> {}, deleted |-> FALSE,
                                  taken |-> 0, done |-> 0]]

\* A producer (an app plugin, the bus) puts a message on the in-queue.
Publish(type, pattern, update) ==
    /\ backbone = "inmem"
    /\ nmsg < MaxMsgs
    /\ nmsg' = nmsg + 1
    /\ inq' = Append(inq, Message(type, nmsg + 1, pattern, update))
    /\ UNCHANGED <<backbone, subscriptions, lock, inbox, worker, consumer, rq, acked,
                   ncalls, lastCall, hist,
                   zvars>>

\* Mutant: get() hands out the oldest item and leaves it on the queue.
QueueGet_peek(items) == [item |-> Head(items), rest |-> items]

\* Mutant: the queue hands out its newest item.
QueueGet_newest(items) ==
    [item |-> items[Len(items)], rest |-> SubSeq(items, 1, Len(items) - 1)]

\* Queue.get() on a queue that is not empty: the oldest item.
QueueGet(items) == [item |-> Head(items), rest |-> Tail(items)]

\* in-memory provision: msg = inq.get(block=True); topic = ...
inmem_provision_get ==
    /\ backbone = "inmem"
    /\ worker.pc = "get"
    /\ inq # <<>>
    /\ LET got == QueueGet(inq)
       IN  /\ worker' = [pc |-> "acquire", msg |-> got.item, topic |-> inmem_topic(got.item)]
           /\ inq' = got.rest
    /\ UNCHANGED <<backbone, subscriptions, lock, inbox, consumer, rq, acked, nmsg,
                   ncalls, lastCall, hist,
                   zvars>>

\* in-memory provision: lock.acquire()
inmem_provision_acquire ==
    /\ backbone = "inmem"
    /\ worker.pc = "acquire"
    /\ lock = "free"
    /\ lock' = "provision"
    /\ worker' = [worker EXCEPT !.pc = "fanout"]
    /\ UNCHANGED <<backbone, subscriptions, inq, inbox, consumer, rq, acked, nmsg,
                   ncalls, lastCall, hist,
                   zvars>>

\* in-memory provision: the two nested for loops, run with the lock held
inmem_provision_fanout ==
    /\ backbone = "inmem"
    /\ worker.pc = "fanout"
    /\ inbox' = FanOut(subscriptions, worker.topic, worker.msg, inbox)
    /\ worker' = [worker EXCEPT !.pc = "release"]
    /\ hist' = [hist EXCEPT !.fanned = @ \cup {worker.msg.id}]
    /\ UNCHANGED <<backbone, subscriptions, lock, inq, consumer, rq, acked, nmsg,
                   ncalls, lastCall,
                   zvars>>

\* in-memory provision: lock.release(), back to the top of the loop
inmem_provision_release ==
    /\ backbone = "inmem"
    /\ worker.pc = "release"
    /\ lock' = "free"
    /\ worker' = [worker EXCEPT !.pc = "get"]
    /\ UNCHANGED <<backbone, subscriptions, inq, inbox, consumer, rq, acked, nmsg,
                   ncalls, lastCall, hist,
                   zvars>>

\* consume_rabbitmq declares an exchange, declares its queue, binds it and
\* registers the callback, for the four kinds in this order.
ConsumerSetupOrder == <<"intel", "sightings", "snapshot-requests", "snapshot-envelopes">>

\* The exchanges consume_rabbitmq has declared, which are the queues it has
\* bound: while it sets up, those before the one it is about to declare.
Bound ==
    IF consumer.pc = "setup"
    THEN {ConsumerSetupOrder[i] : i \in 1..((CHOOSE j \in 1..4 :
                                              ConsumerSetupOrder[j] = consumer.queue) - 1)}
    ELSE {ConsumerSetupOrder[i] : i \in 1..4}

\* The exchanges publish_rabbitmq has declared itself.
PublisherDeclared ==
    CASE worker.pc = "declare_intel" -> {}
      [] worker.pc = "declare_sightings" -> {"intel"}
      [] OTHER -> {"intel", "sightings"}

\* The exchanges that exist on the broker.
Declared == Bound \cup PublisherDeclared

\* The broker routes a body published to a fan-out exchange into the bound
\* queue of this host: the encoding of a value of the queue's kind, or bytes
\* that are no such encoding.
BrokerDeliver(k, kind) ==
    /\ backbone = "rabbitmq"
    /\ k \in Bound
    /\ nmsg < MaxMsgs
    /\ nmsg' = nmsg + 1
    /\ rq' = [rq EXCEPT ![k] = Append(@, [kind |-> kind, id |-> nmsg + 1])]
    /\ UNCHANGED <<backbone, subscriptions, lock, inq, inbox, worker, consumer, acked,
                   ncalls, lastCall, hist,
                   zvars>>

\* Mutant: the callback acknowledges without calling provision.
callback_pc_ack_only(d) == IF d.raised THEN "dead" ELSE "ack"

\* Where a callback goes after __decode: `if msg: provision(topic, msg)`, then
\* basic_ack; an exception leaving __decode ends the consumer.
callback_pc(d) ==
    IF d.raised THEN "dead" ELSE IF d.value # NoneMsg THEN "acquire" ELSE "ack"

\* __provision_intel / _sighting / _snapshot_request / _snapshot_envelope:
\* msg = __decode(body, Decoder); if msg: provision(topic, msg) ...
rabbitmq_callback(k) ==
    /\ backbone = "rabbitmq"
    /\ consumer.pc = "idle"
    /\ rq[k] # <<>>
    /\ rq' = [rq EXCEPT ![k] = Tail(@)]
    /\ LET body == Head(rq[k])
           d == decode(body, DecoderType(k))
       IN  consumer' =
             IF callback_pc(d) = "acquire"
             THEN [pc |-> "acquire", queue |-> k, body |-> body, msg |-> d.value,
                   topic |-> callback_topic(k)]
             ELSE [pc |-> callback_pc(d), queue |-> k, body |-> body, msg |-> NoneMsg,
                   topic |-> <<>>]
    /\ UNCHANGED <<backbone, subscriptions, lock, inq, inbox, worker, acked, nmsg,
                   ncalls, lastCall, hist,
                   zvars>>

\* RabbitMQ provision: lock.acquire()
rabbitmq_provision_acquire ==
    /\ backbone = "rabbitmq"
    /\ consumer.pc = "acquire"
    /\ lock = "free"
    /\ lock' = "consumer"
    /\ consumer' = [consumer EXCEPT !.pc = "fanout"]
    /\ UNCHANGED <<backbone, subscriptions, inq, inbox, worker, rq, acked, nmsg,
                   ncalls, lastCall, hist,
                   zvars>>

\* RabbitMQ provision: the two nested for loops, run with the lock held
rabbitmq_provision_fanout ==
    /\ backbone = "rabbitmq"
    /\ consumer.pc = "fanout"
    /\ inbox' = FanOut(subscriptions, consumer.topic, consumer.msg, inbox)
    /\ consumer' = [consumer EXCEPT !.pc = "release"]
    /\ hist' = [hist EXCEPT !.fanned = @ \cup {consumer.body.id}]
    /\ UNCHANGED <<backbone, subscriptions, lock, inq, worker, rq, acked, nmsg,
                   ncalls, lastCall,
                   zvars>>

\* RabbitMQ provision: lock.release(), return to the callback
rabbitmq_provision_release ==
    /\ backbone = "rabbitmq"
    /\ consumer.pc = "release"
    /\ lock' = "free"
    /\ consumer' = [consumer EXCEPT !.pc = "ack"]
    /\ UNCHANGED <<backbone, subscriptions, inq, inbox, worker, rq, acked, nmsg,
                   ncalls, lastCall, hist,
                   zvars>>

\* channel.basic_ack(delivery_tag=method_frame.delivery_tag)
rabbitmq_basic_ack ==
    /\ backbone = "rabbitmq"
    /\ consumer.pc = "ack"
    /\ acked' = Append(acked, consumer.body)
    /\ consumer' = [consumer EXCEPT !.pc = "idle"]
    /\ UNCHANGED <<backbone, subscriptions, lock, inq, inbox, worker, rq, nmsg,
                   ncalls, lastCall, hist,
                   zvars>>

\* The backbone's subscribe hook, called by the bus for an app's queue.  The
\* body runs between lock.acquire() and lock.release().
subscribe_call(topics, q) ==
    /\ lock = "free"
    /\ LET r == IF backbone = "inmem"
                THEN inmem_subscribe(subscriptions, topics, q)
                ELSE rabbitmq_subscribe(subscriptions, CHOOSE t \in topics : TRUE, q)
       IN  /\ subscriptions' = r.dict
           /\ lastCall' = [op |-> "subscribe", topics |-> topics, q |-> q,
                           raised |-> r.raised,
                           registered |-> {t \in topics : <<t, q>> \in Pairs(subscriptions)}]
    /\ ncalls' = ncalls + 1
    /\ hist' = [subscribed |-> [hist.subscribed EXCEPT ![q] = @ \cup topics],
                unsubscribed |-> [hist.unsubscribed EXCEPT ![q] = @ \ topics],
                fanned |-> hist.fanned, published |-> hist.published]

\* A subscribe call made by the bus for some app's queue.
subscribe(topics, q) ==
    /\ ncalls < MaxCalls
    /\ backbone = "rabbitmq" => Cardinality(topics) = 1
    /\ subscribe_call(topics, q)
    /\ UNCHANGED <<backbone, lock, inq, inbox, worker, consumer, rq, acked, nmsg,
                   zvars>>

\* The backbone's unsubscribe hook.
unsubscribe_call(topics, q) ==
    /\ lock = "free"
    /\ LET r == IF backbone = "inmem"
                THEN inmem_unsubscribe(subscriptions, topics, q)
                ELSE rabbitmq_unsubscribe(subscriptions, CHOOSE t \in topics : TRUE, q)
       IN  /\ subscriptions' = r.dict
           /\ lastCall' = [op |-> "unsubscribe", topics |-> topics, q |-> q,
                           raised |-> r.raised,
                           registered |-> {t \in topics : <<t, q>> \in Pairs(subscriptions)}]
           /\ hist' = IF r.raised THEN hist
                      ELSE [hist EXCEPT !.unsubscribed[q] = @ \cup topics]
    /\ ncalls' = ncalls + 1

\* An unsubscribe call made by the bus for some app's queue.
unsubscribe(topics, q) ==
    /\ ncalls < MaxCalls
    /\ backbone = "rabbitmq" => Cardinality(topics) = 1
    /\ unsubscribe_call(topics, q)
    /\ UNCHANGED <<backbone, lock, inq, inbox, worker, consumer, rq, acked, nmsg,
                   zvars>>

TopicLists == {ts \in SUBSET SubTopics : Cardinality(ts) <= MaxTopicsPerCall}

InitBackbones ==
    /\ backbone \in {"inmem", "rabbitmq"}
    /\ InitBackbone

NextBackbones ==
    \/ \E type \in MsgTypes :
           Publish(type, IF type = "Indicator" THEN pattern_domain ELSE <<>>, "None")
    \/ inmem_provision_get
    \/ inmem_provision_acquire
    \/ inmem_provision_fanout
    \/ inmem_provision_release
    \/ \E k \in RabbitQueues : \E kind \in {DecoderType(k), "malformed"} : BrokerDeliver(k, kind)
    \/ \E k \in RabbitQueues : rabbitmq_callback(k)
    \/ rabbitmq_provision_acquire
    \/ rabbitmq_provision_fanout
    \/ rabbitmq_provision_release
    \/ rabbitmq_basic_ack
    \/ \E topics \in TopicLists, q \in Queues : subscribe(topics, q)
    \/ \E topics \in TopicLists, q \in Queues : unsubscribe(topics, q)

SpecBackbones == InitBackbones /\ [][NextBackbones]_vars

\* ------------------------------------------------------------------ RabbitMQ workers

\* A producer puts a message on the in-queue of a bus that runs the RabbitMQ
\* backbone.
rabbitmq_inq_put(type) ==
    /\ backbone = "rabbitmq"
    /\ nmsg < MaxMsgs
    /\ nmsg' = nmsg + 1
    /\ inq' = Append(inq, Message(type, nmsg + 1, <<>>, "None"))
    /\ UNCHANGED <<backbone, subscriptions, lock, inbox, worker, consumer, rq, acked,
                   ncalls, lastCall, hist,
                   zvars>>

\* Mutant: every message is encoded and goes to the intel exchange.
exchange_of_always_intel(type) == "intel"

\* publish_rabbitmq: the exchange a message type is published to, by the base
\* name of the queue this host binds to it; "None" when nothing is encoded.
exchange_of(type) ==
    CASE type = "Intel" -> "intel"
      [] type = "Sighting" -> "sightings"
      [] type = "SnapshotRequest" -> "snapshot-requests"
      [] type = "SnapshotEnvelope" -> "snapshot-envelopes"
      [] OTHER -> "None"

\* publish_rabbitmq: one pass of `while True`.  The thread blocks in
\* inq.get; a message of an unknown type is skipped.  basic_publish hands
\* the encoded message to the exchange with routing_key="": a fan-out
\* exchange routes it into the queue this host has bound to it, if any; for
\* an exchange that does not exist the broker closes the channel, and the
\* next basic_publish on the closed channel raises and ends the thread.
rabbitmq_publish ==
    /\ backbone = "rabbitmq"
    /\ worker.pc \in {"get", "channel_closed"}
    /\ inq # <<>>
    /\ LET got == QueueGet(inq)
           exchange == exchange_of(got.item.type)
       IN  /\ inq' = got.rest
           /\ IF exchange = "None"
              THEN UNCHANGED <<rq, worker, hist>>
              ELSE IF worker.pc = "channel_closed"
              THEN /\ worker' = [worker EXCEPT !.pc = "dead"]
                   /\ UNCHANGED <<rq, hist>>
              ELSE /\ hist' = [hist EXCEPT !.published =
                                   Append(@, [exchange |-> exchange, routing_key |-> <<>>,
                                              id |-> got.item.id,
                                              declared |-> exchange \in Declared])]
                   /\ rq' = IF exchange \in Bound
                            THEN [rq EXCEPT ![exchange] =
                                     Append(@, [kind |-> DecoderType(exchange),
                                                id |-> got.item.id])]
                            ELSE rq
                   /\ worker' = IF exchange \in Declared THEN worker
                                ELSE [worker EXCEPT !.pc = "channel_closed"]
    /\ UNCHANGED <<backbone, subscriptions, lock, inbox, consumer, acked, nmsg,
                   ncalls, lastCall,
                   zvars>>

\* consume_rabbitmq: exchange_declare, queue_declare, queue_bind and
\* basic_consume for the next kind; after the last one, start_consuming.
rabbitmq_consumer_declare ==
    /\ backbone = "rabbitmq"
    /\ consumer.pc = "setup"
    /\ LET j == CHOOSE i \in 1..4 : ConsumerSetupOrder[i] = consumer.queue
       IN  consumer' = IF j < 4
                       THEN [consumer EXCEPT !.queue = ConsumerSetupOrder[j + 1]]
                       ELSE [consumer EXCEPT !.pc = "idle", !.queue = "none"]
    /\ UNCHANGED <<backbone, subscriptions, lock, inq, inbox, worker, rq, acked, nmsg,
                   ncalls, lastCall, hist,
                   zvars>>

\* publish_rabbitmq: exchange_declare for intel, then for sightings, then
\* the loop.
rabbitmq_publisher_declare ==
    /\ backbone = "rabbitmq"
    /\ worker.pc \in {"declare_intel", "declare_sightings"}
    /\ worker' = [worker EXCEPT !.pc = IF worker.pc = "declare_intel"
                                       THEN "declare_sightings" ELSE "get"]
    /\ UNCHANGED <<backbone, subscriptions, lock, inq, inbox, consumer, rq, acked, nmsg,
                   ncalls, lastCall, hist,
                   zvars>>

\* consume_rabbitmq: start_consuming raises ConnectionClosedByBroker; the
\* handler calls stop_consuming and connection.close and the thread returns.
rabbitmq_connection_closed ==
    /\ backbone = "rabbitmq"
    /\ consumer.pc = "idle"
    /\ consumer' = [consumer EXCEPT !.pc = "exited"]
    /\ UNCHANGED <<backbone, subscriptions, lock, inq, inbox, worker, rq, acked, nmsg,
                   ncalls, lastCall, hist,
                   zvars>>

InitRabbit ==
    /\ backbone = "rabbitmq"
    /\ InitBackbone

NextRabbit ==
    \/ \E type \in MsgTypes : rabbitmq_inq_put(type)
    \/ rabbitmq_publish
    \/ \E k \in RabbitQueues : \E kind \in {DecoderType(k), "malformed"} : BrokerDeliver(k, kind)
    \/ \E k \in RabbitQueues : rabbitmq_callback(k)
    \/ rabbitmq_provision_acquire
    \/ rabbitmq_provision_fanout
    \/ rabbitmq_provision_release
    \/ rabbitmq_basic_ack
    \/ rabbitmq_connection_closed
    \/ \E topics \in TopicLists, q \in Queues : subscribe(topics, q)

\* Every thread that can take a step eventually takes one.
SpecRabbit == InitRabbit /\ [][NextRabbit]_vars /\ WF_vars(NextRabbit)

\* run has just started the two threads, on a broker without exchanges.
InitRabbitStart ==
    /\ backbone = "rabbitmq"
    /\ subscriptions = EmptyDict
    /\ lock = "free"
    /\ inq = <<>>
    /\ inbox = [q \in Queues |-> <<>>]
    /\ worker = [pc |-> "declare_intel", msg |-> NoneMsg, topic |-> <<>>]
    /\ consumer = [pc |-> "setup", queue |-> "intel", body |-> [kind |-> "none", id |-> 0],
                   msg |-> NoneMsg, topic |-> <<>>]
    /\ rq = [k \in RabbitQueues |-> <<>>]
    /\ acked = <<>>
    /\ nmsg = 0
    /\ ncalls = 0
    /\ lastCall = NoCall
    /\ hist = [subscribed |-> [q \in Queues |-> {}], unsubscribed |-> [q \in Queues |-> {}],
               fanned |-> {}, published |-> <<>>]
    /\ zsubs = <<>>
    /\ zlock = "free"
    /\ mgmt = [pc |-> "wait", task |-> [kind |-> "None", topic |-> <<>>, snapshot |-> 0],
               p2p_topic |-> <<>>, q |-> 0, threatbus_topic |-> <<>>]
    /\ pub = [pc |-> "acquire", qt_lookup |-> <<>>, ready |-> <<>>, handled |-> {}]
    /\ endpoint = <<>>
    /\ nextq = 0
    /\ nevents = 0
    /\ born = [q \in Queues |-> [arrival |-> 0, fanned |-> {}, deleted |-> FALSE,
                                  taken |-> 0, done |-> 0]]

NextRabbitStart ==
    \/ rabbitmq_consumer_declare
    \/ rabbitmq_publisher_declare
    \/ \E type \in MsgTypes : rabbitmq_inq_put(type)
    \/ rabbitmq_publish
    \/ \E k \in RabbitQueues : \E kind \in {DecoderType(k), "malformed"} : BrokerDeliver(k, kind)
    \/ \E k \in RabbitQueues : rabbitmq_callback(k)
    \/ rabbitmq_provision_acquire
    \/ rabbitmq_provision_fanout
    \/ rabbitmq_provision_release
    \/ rabbitmq_basic_ack
    \/ \E q \in Queues : subscribe({topic_intel}, q)

SpecRabbitStart == InitRabbitStart /\ [][NextRabbitStart]_vars

\* ------------------------------------------------------------------ Zeek plugin

MaxEvents == 3      \* management events received in one behaviour
MaxSuffixes == 2    \* distinct values rand_string can return

rand_suffix_length == 10

module_namespace == "Tb"

topic_manage == <<"t","h","r","e","a","t","b","u","s","/","m","a","n","a","g","e">>

\* The strings rand_string(length) can return: `length` letters of
\* string.ascii_lowercase, any of them on every call.
rand_string(length) ==
    {[i \in 1..length |-> IF i <= k THEN ascii_lowercase[1] ELSE ascii_lowercase[2]] :
        k \in 1..MaxSuffixes}

\* Mutant: the slice keeps the whole string.
SliceTo_whole(s, n) == s

\* s[:n]
SliceTo(s, n) ==
    IF n >= 0 THEN SubSeq(s, 1, IF n < Len(s) THEN n ELSE Len(s))
    ELSE SubSeq(s, 1, IF Len(s) + n > 0 THEN Len(s) + n ELSE 0)

\* The plugin's dict, as the sequence of its items in insertion order.
DictKeys(d) == {d[i].topic : i \in 1..Len(d)}

\* d.get(k, None); 0 stands for None
DictGet(d, k) ==
    IF k \in DictKeys(d) THEN d[CHOOSE i \in 1..Len(d) : d[i].topic = k].q ELSE 0

\* d[k] = v
DictSet(d, k, v) ==
    IF k \in DictKeys(d)
    THEN [i \in 1..Len(d) |-> IF d[i].topic = k THEN [topic |-> k, q |-> v] ELSE d[i]]
    ELSE Append(d, [topic |-> k, q |-> v])

\* Mutant: del leaves the item in the dict.
DictDel_keep(d, k) == d

\* del d[k]
DictDel(d, k) ==
    LET keep(e) == e.topic # k IN SelectSeq(d, keep)

NoTask == [kind |-> "None", topic |-> <<>>, snapshot |-> 0]

\* The Subscription / Unsubscription a management event stands for, or None.
map_management_message(broker_data, namespace) ==
    LET prefix == IF namespace # "" THEN <<namespace, "::">> ELSE <<>>
        name == IF StartsWith(broker_data.name, prefix)
                THEN SubSeq(broker_data.name, Len(prefix) + 1, Len(broker_data.name))
                ELSE broker_data.name
        args == broker_data.args
    IN  IF name = <<"subscribe">> /\ Len(args) = 2
        THEN IF args[1] # <<>>
             THEN [kind |-> "Subscription", topic |-> args[1], snapshot |-> args[2]]
             ELSE NoTask
        ELSE IF name = <<"unsubscribe">> /\ Len(args) = 1
        THEN IF args[1] # <<>>
             THEN [kind |-> "Unsubscription", topic |-> args[1], snapshot |-> 0]
             ELSE NoTask
        ELSE NoTask

\* Mutant: the acknowledgment carries the topic of the subscription.
ack_event_task_topic(namespace, p2p_topic, task) ==
    [name |-> <<namespace, "::", "subscription_acknowledged">>, args |-> <<task.topic>>]

\* broker.zeek.Event(f"{module_namespace}::subscription_acknowledged", p2p_topic)
ack_event(namespace, p2p_topic, task) ==
    [name |-> <<namespace, "::", "subscription_acknowledged">>, args |-> <<p2p_topic>>]

IsAck(e) == e.topic = topic_manage /\ e.event.name = <<module_namespace, "::", "subscription_acknowledged">>

\* The acknowledgments published so far, in order.
Acks == SelectSeq(endpoint, IsAck)

\* Topics and snapshot deltas a tool subscribes with.
ZeekTopics == {SubTopic_t, SubTopic_threatbus}

SnapshotDeltas == {0, 1}

\* The management events the tool can send.
ToolEvents ==
    {[name |-> <<module_namespace, "::", "subscribe">>, args |-> <<t, d>>] :
        t \in ZeekTopics, d \in SnapshotDeltas}
    \cup {[name |-> <<module_namespace, "::", "unsubscribe">>, args |-> <<t>>] :
        t \in {Acks[i].event.args[1] : i \in 1..Len(Acks)}}

\* What ep.publish of the acknowledgment does: it returns, or it raises a
\* transport error.
EndpointOutcomes == {"ok", "raised"}

\* manage: one management event is received and mapped.  A Subscription
\* runs manage_subscription up to ep.publish of the acknowledgment, an
\* Unsubscription up to the lookup of its queue.  Nothing in manage or
\* manage_subscription catches an exception of ep.publish: it ends the thread.
zeek_manage(broker_data, ep_publish) ==
    /\ mgmt.pc = "wait"
    /\ nevents < MaxEvents
    /\ nevents' = nevents + 1
    /\ LET task == map_management_message(broker_data, module_namespace)
       IN  CASE task.kind = "Subscription" ->
                  /\ nextq < MaxQueues
                  /\ IF ep_publish = "ok"
                     THEN \E suffix \in rand_string(rand_suffix_length) :
                        LET p2p_topic == task.topic \o suffix
                            p2p_q == nextq + 1
                        IN  /\ nextq' = p2p_q
                            /\ endpoint' = Append(endpoint,
                                   [topic |-> topic_manage,
                                    event |-> ack_event(module_namespace, p2p_topic, task),
                                    q |-> 0, late |-> FALSE])
                            /\ mgmt' = [pc |-> "subscribe_callback", task |-> task,
                                        p2p_topic |-> p2p_topic, q |-> p2p_q,
                                        threatbus_topic |-> <<>>]
                            /\ born' = [born EXCEPT ![p2p_q].arrival = nmsg]
                     ELSE /\ mgmt' = [mgmt EXCEPT !.pc = "dead", !.task = task]
                          /\ UNCHANGED <<endpoint, nextq, born>>
             [] task.kind = "Unsubscription" ->
                  LET threatbus_topic == SliceTo(task.topic, Len(task.topic) - rand_suffix_length)
                      p2p_q == DictGet(zsubs, task.topic)
                  IN  /\ mgmt' = IF p2p_q # 0
                                 THEN [pc |-> "unsubscribe_callback", task |-> task,
                                       p2p_topic |-> <<>>, q |-> p2p_q,
                                       threatbus_topic |-> threatbus_topic]
                                 ELSE mgmt
                      /\ UNCHANGED <<endpoint, nextq, born>>
             [] OTHER -> UNCHANGED <<mgmt, endpoint, nextq, born>>
    /\ UNCHANGED <<bvars, zsubs, zlock, pub>>

\* Mutant: manage_subscription goes on to the insert without calling
\* subscribe_callback.
zeek_subscribe_callback_skipped ==
    /\ mgmt.pc = "subscribe_callback"
    /\ mgmt' = [mgmt EXCEPT !.pc = "acquire_insert"]
    /\ UNCHANGED <<bvars, zsubs, zlock, pub, endpoint, nextq, nevents, born>>

\* manage_subscription: subscribe_callback(task.topic, p2p_q, task.snapshot).
\* The bus registers the queue with the backbone under the topic and, for a
\* snapshot delta above zero, puts a SnapshotRequest on the in-queue.
zeek_subscribe_callback ==
    /\ mgmt.pc = "subscribe_callback"
    /\ subscribe_call({mgmt.task.topic}, mgmt.q)
    /\ IF mgmt.task.snapshot > 0
       THEN /\ nmsg < MaxMsgs
            /\ inq' = Append(inq, Message("SnapshotRequest", nmsg + 1, <<>>, "None"))
            /\ nmsg' = nmsg + 1
       ELSE UNCHANGED <<inq, nmsg>>
    /\ born' = [born EXCEPT ![mgmt.q].fanned = hist.fanned]
    /\ mgmt' = [mgmt EXCEPT !.pc = "acquire_insert"]
    /\ UNCHANGED <<backbone, lock, inbox, worker, consumer, rq, acked,
                   zsubs, zlock, pub, endpoint, nextq, nevents>>

\* manage_subscription: lock.acquire(), before the insert and before the del
zeek_manage_acquire ==
    /\ mgmt.pc \in {"acquire_insert", "acquire_delete"}
    /\ zlock = "free"
    /\ zlock' = "manage"
    /\ mgmt' = [mgmt EXCEPT !.pc = IF mgmt.pc = "acquire_insert" THEN "insert" ELSE "delete"]
    /\ UNCHANGED <<bvars, zsubs, pub, endpoint, nextq, nevents, born>>

\* manage_subscription: subscriptions[p2p_topic] = p2p_q; lock.release()
zeek_insert ==
    /\ mgmt.pc = "insert"
    /\ zlock = "manage"
    /\ zsubs' = DictSet(zsubs, mgmt.p2p_topic, mgmt.q)
    /\ zlock' = "free"
    /\ mgmt' = [mgmt EXCEPT !.pc = "wait"]
    /\ UNCHANGED <<bvars, pub, endpoint, nextq, nevents, born>>

\* manage_subscription: unsubscribe_callback(threatbus_topic, p2p_q)
zeek_unsubscribe_callback ==
    /\ mgmt.pc = "unsubscribe_callback"
    /\ unsubscribe_call({mgmt.threatbus_topic}, mgmt.q)
    /\ mgmt' = [mgmt EXCEPT !.pc = "acquire_delete"]
    /\ UNCHANGED <<backbone, lock, inq, inbox, worker, consumer, rq, acked, nmsg,
                   zsubs, zlock, pub, endpoint, nextq, nevents, born>>

\* manage_subscription: del subscriptions[task.topic]; lock.release()
zeek_delete ==
    /\ mgmt.pc = "delete"
    /\ zlock = "manage"
    /\ zsubs' = DictDel(zsubs, mgmt.task.topic)
    /\ zlock' = "free"
    /\ mgmt' = [mgmt EXCEPT !.pc = "wait"]
    /\ born' = [born EXCEPT ![mgmt.q].deleted = TRUE]
    /\ UNCHANGED <<bvars, pub, endpoint, nextq, nevents>>

\* publish: lock.acquire() at the top of the loop
zeek_publish_acquire ==
    /\ pub.pc = "acquire"
    /\ zlock = "free"
    /\ zlock' = "publish"
    /\ pub' = [pub EXCEPT !.pc = "snapshot"]
    /\ UNCHANGED <<bvars, zsubs, mgmt, endpoint, nextq, nevents, born>>

\* Mutant: publish keeps the lock after it has copied the dict.
zeek_publish_snapshot_keep_lock ==
    /\ pub.pc = "snapshot"
    /\ zlock = "publish"
    /\ pub' = [pc |-> "select", qt_lookup |-> zsubs, ready |-> <<>>, handled |-> {}]
    /\ UNCHANGED <<bvars, zsubs, zlock, mgmt, endpoint, nextq, nevents, born>>

\* publish: qt_lookup and readers are built from the dict; lock.release()
zeek_publish_snapshot ==
    /\ pub.pc = "snapshot"
    /\ zlock = "publish"
    /\ pub' = [pc |-> "select", qt_lookup |-> zsubs, ready |-> <<>>, handled |-> {}]
    /\ zlock' = "free"
    /\ UNCHANGED <<bvars, zsubs, mgmt, endpoint, nextq, nevents, born>>

\* Mutant: every queue is in `readers` twice.
Readers_twice(qt_lookup) ==
    [i \in 1..Len(qt_lookup) |-> qt_lookup[i].q] \o [i \in 1..Len(qt_lookup) |-> qt_lookup[i].q]

\* readers = [q._reader for q in subscriptions.values()]
Readers(qt_lookup) == [i \in 1..Len(qt_lookup) |-> qt_lookup[i].q]

\* publish: select.select(readers, [], [], 0.05) returns the readers of the
\* snapshot that have something to read, in the order of `readers`.
zeek_publish_select ==
    /\ pub.pc = "select"
    /\ LET readable(fd) == inbox[fd] # <<>>
           ready_readers == SelectSeq(Readers(pub.qt_lookup), readable)
       IN  pub' = IF ready_readers = <<>>
                  THEN [pc |-> "acquire", qt_lookup |-> <<>>, ready |-> <<>>, handled |-> {}]
                  ELSE [pub EXCEPT !.pc = "loop", !.ready = ready_readers]
    /\ UNCHANGED <<bvars, zsubs, zlock, mgmt, endpoint, nextq, nevents, born>>

\* publish: one pass of the body of `for fd in ready_readers`.
zeek_publish_handle ==
    /\ pub.pc = "loop"
    /\ LET fd == Head(pub.ready)
           topic == (CHOOSE e \in {pub.qt_lookup[i] : i \in 1..Len(pub.qt_lookup)} : e.q = fd).topic
           rest == Tail(pub.ready)
           continue == IF rest = <<>>
                       THEN [pc |-> "acquire", qt_lookup |-> <<>>, ready |-> <<>>,
                             handled |-> pub.handled \cup {fd}]
                       ELSE [pub EXCEPT !.ready = rest, !.handled = @ \cup {fd}]
       IN  IF inbox[fd] = <<>>
           THEN pub' = continue /\ UNCHANGED <<inbox, endpoint, born>>
           ELSE LET got == QueueGet(inbox[fd])
                    msg == got.item
                    r == map_to_broker(msg, module_namespace)
                    task_done == IF msg # NoneMsg /\ r.raised THEN 0 ELSE 1
                IN  /\ inbox' = [inbox EXCEPT ![fd] = got.rest]
                    /\ born' = [born EXCEPT ![fd].taken = @ + 1,
                                            ![fd].done = @ + task_done]
                    /\ IF msg = NoneMsg
                       THEN pub' = continue /\ UNCHANGED endpoint
                       ELSE IF r.raised
                       THEN pub' = [pub EXCEPT !.pc = "dead"] /\ UNCHANGED endpoint
                       ELSE /\ endpoint' = IF r.value # NoEvent
                                           THEN Append(endpoint,
                                                    [topic |-> topic, event |-> r.value, q |-> fd,
                                                     late |-> born[fd].deleted])
                                           ELSE endpoint
                            /\ pub' = continue
    /\ UNCHANGED <<backbone, subscriptions, lock, inq, worker, consumer, rq, acked, nmsg,
                   ncalls, lastCall, hist, zsubs, zlock, mgmt, nextq, nevents>>

\* What the producers put on the in-queue of a bus with the Zeek plugin.
ZeekPublishInputs ==
    {[type |-> "Indicator", pattern |-> pattern_domain, update |-> "None"],
     [type |-> "Indicator", pattern |-> pattern_compound, update |-> "None"],
     [type |-> "Indicator", pattern |-> pattern_equals_in_literal, update |-> "None"]}

InitZeek ==
    /\ backbone = "inmem"
    /\ InitBackbone

NextZeek ==
    \/ \E in \in ZeekPublishInputs : Publish(in.type, in.pattern, in.update)
    \/ inmem_provision_get
    \/ inmem_provision_acquire
    \/ inmem_provision_fanout
    \/ inmem_provision_release
    \/ \E broker_data \in ToolEvents : \E ep_publish \in EndpointOutcomes :
          zeek_manage(broker_data, ep_publish)
    \/ zeek_subscribe_callback
    \/ zeek_manage_acquire
    \/ zeek_insert
    \/ zeek_unsubscribe_callback
    \/ zeek_delete
    \/ zeek_publish_acquire
    \/ zeek_publish_snapshot
    \/ zeek_publish_select
    \/ zeek_publish_handle

SpecZeek == InitZeek /\ [][NextZeek]_vars

\* ------------------------------------------------------------------ claims

\* p is a byte-prefix of s.
IsBytePrefix(p, s) == Len(p) <= Len(s) /\ \A i \in 1..Len(p) : s[i] = p[i]

\* The entries a step appended to inbox q are all msg, and there is one.
Enqueued(q, msg) ==
    /\ Len(inbox'[q]) > Len(inbox[q])
    /\ SubSeq(inbox'[q], 1, Len(inbox[q])) = inbox[q]
    /\ \A i \in (Len(inbox[q]) + 1)..Len(inbox'[q]) : inbox'[q][i] = msg

\* Inbox q holds msg.
Holds(q, msg) == \E i \in 1..Len(inbox[q]) : inbox[q][i] = msg

InmemFanOutStep == backbone = "inmem" /\ worker.pc = "fanout" /\ worker'.pc = "release"

RabbitFanOutStep ==
    backbone = "rabbitmq" /\ consumer.pc = "fanout" /\ consumer'.pc = "release"

\* C1: in both backbones a fan-out step enqueues the dispatched message into
\* an inbox if and only if the inbox is registered under a topic that is a
\* byte-prefix of the message's routing topic; no other step enqueues.
C1_PrefixRouting ==
    [][ /\ InmemFanOutStep =>
              \A q \in Queues :
                  (\E t \in DOMAIN subscriptions :
                       q \in subscriptions[t] /\ IsBytePrefix(t, worker.topic))
                  <=> Enqueued(q, worker.msg)
        /\ RabbitFanOutStep =>
              \A q \in Queues :
                  (\E t \in DOMAIN subscriptions :
                       q \in subscriptions[t] /\ IsBytePrefix(t, consumer.topic))
                  <=> Enqueued(q, consumer.msg)
        /\ (~InmemFanOutStep /\ ~RabbitFanOutStep) => inbox' = inbox
      ]_vars

\* C1 witness: a fan-out has just put the message into one inbox and not
\* into another registered one.
C1_Witness ==
    \E q1, q2 \in Queues :
        /\ \/ backbone = "inmem" /\ worker.pc = "release"
                 /\ Holds(q1, worker.msg)
                 /\ ~Holds(q2, worker.msg)
           \/ backbone = "rabbitmq" /\ consumer.pc = "release"
                 /\ Holds(q1, consumer.msg)
                 /\ ~Holds(q2, consumer.msg)
        /\ Registered(subscriptions, q2)

\* The canonical topic of a message kind.
CanonicalTopic(type) ==
    CASE type \in {"Intel", "Indicator"} -> <<"t","h","r","e","a","t","b","u","s","/","i","n","t","e","l">>
      [] type = "Sighting" -> <<"t","h","r","e","a","t","b","u","s","/","s","i","g","h","t","i","n","g">>
      [] type = "SnapshotRequest" -> <<"t","h","r","e","a","t","b","u","s","/","s","n","a","p","s","h","o","t","r","e","q","u","e","s","t">>
      [] type = "SnapshotEnvelope" -> <<"t","h","r","e","a","t","b","u","s","/","s","n","a","p","s","h","o","t","e","n","v","e","l","o","p","e">>

\* C2: the topic a backbone routes a message under is the canonical topic
\* of its kind, in the in-memory provision worker and in the four consumer
\* callbacks; so when inbox 1 is registered under threatbus/ only and inbox
\* 2 under threatbus/intel only, a fanned-out Sighting is in 1 and not in 2.
C2_CanonicalTopic ==
    /\ (backbone = "inmem" /\ worker.pc \in {"acquire", "fanout", "release"})
          => worker.topic = CanonicalTopic(worker.msg.type)
    /\ (backbone = "rabbitmq" /\ consumer.pc \in {"acquire", "fanout", "release"})
          => consumer.topic = CanonicalTopic(consumer.msg.type)
    /\ (/\ backbone = "inmem" /\ worker.pc = "release" /\ worker.msg.type = "Sighting"
         /\ Pairs(subscriptions) = {<<SubTopic_threatbus, 1>>, <<topic_intel, 2>>})
          => /\ Holds(1, worker.msg)
             /\ ~Holds(2, worker.msg)

\* Every topic the inbox was subscribed under has since been unsubscribed by
\* a call that returned.
Unsubscribed(q) ==
    hist.subscribed[q] # {} /\ hist.subscribed[q] \subseteq hist.unsubscribed[q]

\* C3: once unsubscribe has returned for every topic an inbox was subscribed
\* under, no step enqueues into that inbox.
C3_NoEnqueueAfterUnsubscribe ==
    [][ \A q \in Queues : Unsubscribed(q) => inbox'[q] = inbox[q] ]_vars

\* C3 witness: a fan-out has run, under the lock, for a message whose topic
\* has a former topic of an unsubscribed inbox as a prefix.
C3_Witness ==
    \E q \in Queues :
        /\ Unsubscribed(q)
        /\ \/ backbone = "inmem" /\ worker.pc = "release"
                 /\ \E t \in hist.subscribed[q] : IsBytePrefix(t, worker.topic)
           \/ backbone = "rabbitmq" /\ consumer.pc = "release"
                 /\ \E t \in hist.subscribed[q] : IsBytePrefix(t, consumer.topic)

\* C6: an unsubscribe call never raises, removes exactly the pairs it names
\* and, when none of them is registered, leaves the registered pairs as
\* they were.
C6_UnsubscribeIdempotent ==
    [][ (ncalls' = ncalls + 1 /\ lastCall'.op = "unsubscribe") =>
            /\ ~lastCall'.raised
            /\ Pairs(subscriptions') =
                   Pairs(subscriptions) \ (lastCall'.topics \X {lastCall'.q})
            /\ lastCall'.registered = {} => Pairs(subscriptions') = Pairs(subscriptions)
      ]_vars

\* C6 witness: the last call was an unsubscribe of pairs that an earlier
\* unsubscribe had already removed.
C6_Witness ==
    /\ lastCall.op = "unsubscribe"
    /\ lastCall.topics # {}
    /\ lastCall.registered = {}
    /\ lastCall.topics \subseteq hist.subscribed[lastCall.q]
    /\ ~lastCall.raised

\* C10: a delivery whose body fails to decode puts nothing into any inbox,
\* is acknowledged all the same, and leaves the consumer ready for the
\* next delivery; the consumer thread never dies in a callback.
C10_PoisonAcked ==
    [][ /\ (consumer.pc = "idle" /\ consumer'.pc # "idle"
             /\ consumer'.body.kind # DecoderType(consumer'.queue))
              => (consumer'.pc = "ack" /\ inbox' = inbox)
        /\ (consumer.pc = "ack" /\ consumer' # consumer)
              => /\ consumer'.pc = "idle"
                 /\ acked' = Append(acked, consumer.body)
                 /\ inbox' = inbox
        /\ consumer'.pc # "dead"
      ]_vars

\* C10 witness: a malformed delivery was acknowledged, and the delivery after
\* it was decoded, fanned out into an inbox and acknowledged.
C10_Witness ==
    /\ Len(acked) = 2
    /\ acked[1].kind = "malformed"
    /\ acked[2].kind # "malformed"
    /\ \E q \in Queues : inbox[q] # <<>>

\* ------------------------------------------------------------------ Zeek claims

ZeekInsertStep == mgmt.pc = "insert" /\ mgmt'.pc = "wait"

\* C4 (as stated): no message put on the in-queue before the Subscription
\* event of a subscription arrived is ever enqueued into the inbox of that
\* subscription.
C4_NoEarlierMessage ==
    \A q \in Queues : \A i \in 1..Len(inbox[q]) : inbox[q][i].id > born[q].arrival

\* C4 (amended): no message whose fan-out had already run when the
\* subscription was registered with the backbone is ever enqueued into the
\* inbox of that subscription.
C4_NoFannedMessage ==
    \A q \in Queues : \A i \in 1..Len(inbox[q]) : inbox[q][i].id \notin born[q].fanned

\* A subscription registered after one message was fanned out holds a message
\* that was published before its Subscription event arrived.
C4_Witness ==
    \E q \in Queues :
        /\ born[q].fanned # {}
        /\ \E i \in 1..Len(inbox[q]) : inbox[q][i].id <= born[q].arrival

\* C5: every accepted Subscription has exactly one acknowledgment on
\* threatbus/manage, and the topic in the acknowledgment is the key under
\* which the inbox of the subscription is stored.
C5_AckMatchesRegistration ==
    [][/\ Len(Acks') = nextq'
       /\ \A i \in 1..Len(endpoint') :
              (endpoint'[i].event.name = <<module_namespace, "::", "subscription_acknowledged">>)
                  => endpoint'[i].topic = topic_manage
       /\ ZeekInsertStep =>
              DictGet(zsubs', Acks[mgmt.q].event.args[1]) = mgmt.q]_vars

C5_Witness ==
    /\ mgmt.pc = "wait"
    /\ nextq = 2
    /\ Len(Acks) = 2
    /\ DictGet(zsubs, Acks[1].event.args[1]) = 1
    /\ DictGet(zsubs, Acks[2].event.args[1]) = 2

\* C7: a p2p topic is the topic of the subscription followed by ten
\* characters, and storing a new subscription never replaces the entry of a
\* subscription that is already stored.
C7_UniqueP2PTopics ==
    [][ZeekInsertStep =>
          /\ Len(mgmt.p2p_topic) = Len(mgmt.task.topic) + 10
          /\ StartsWith(mgmt.p2p_topic, mgmt.task.topic)
          /\ \A i \in 1..Len(zsubs) : DictGet(zsubs', zsubs[i].topic) = zsubs[i].q]_vars

\* The events published from the inbox q, in order.
PublishedFrom(q) ==
    LET from_q(e) == e.q = q IN SelectSeq(endpoint, from_q)

\* C8: the messages published from an inbox followed by the messages still
\* in it are in the order in which they were put on the in-queue.
C8_ProducerOrder ==
    \A q \in Queues :
        LET published == PublishedFrom(q)
            ids == [i \in 1..Len(published) |-> published[i].event.args[2]]
                   \o [i \in 1..Len(inbox[q]) |-> inbox[q][i].id]
        IN  \A i, j \in 1..Len(ids) : i < j => ids[i] < ids[j]

C8_Witness ==
    \E q \in Queues :
        /\ Len(PublishedFrom(q)) = 2
        /\ PublishedFrom(q)[1].event.args[2] = 1
        /\ PublishedFrom(q)[2].event.args[2] = 2

\* C9: the outbound loop survives every message it takes from an inbox.
C9_LoopNeverDies == pub.pc # "dead"

\* ------------------------------------------------------------------ RabbitMQ acknowledgments

\* The deliveries the consumer has taken from its queues so far.
Taken ==
    nmsg - (Len(rq["intel"]) + Len(rq["sightings"])
            + Len(rq["snapshot-requests"]) + Len(rq["snapshot-envelopes"]))

\* C11: no delivery is acknowledged twice, a callback that has returned has
\* acknowledged its delivery, and a delivery that decodes is acknowledged
\* only after provision has fanned it out and released the lock.
C11_AckAfterProvision ==
    [][/\ \A i, j \in 1..Len(acked') : i # j => acked'[i].id # acked'[j].id
       /\ (backbone = "rabbitmq" /\ consumer'.pc = "idle") => Len(acked') = Taken'
       /\ (Len(acked') > Len(acked) /\ consumer.body.kind # "malformed")
              => /\ consumer.body.id \in hist.fanned
                 /\ lock = "free"]_vars

C11_Witness ==
    /\ consumer.pc = "idle"
    /\ \E i \in 1..Len(acked) :
          /\ acked[i].kind # "malformed"
          /\ \E q \in Queues : \E j \in 1..Len(inbox[q]) : inbox[q][j].id = acked[i].id

\* ------------------------------------------------------------------ Zeek unsubscription

\* The events published from the inbox q after the entry of q was deleted.
LateFrom(q) ==
    {i \in 1..Len(endpoint) : endpoint[i].q = q /\ endpoint[i].late}

ZeekPublishStep == Len(endpoint') > Len(endpoint) /\ pub' # pub

\* A step of the manage thread that publishes the acknowledgment.
ZeekAckStep == Len(endpoint') > Len(endpoint) /\ mgmt' # mgmt

\* A step of the manage thread that calls one of the two callbacks.
ZeekCallbackStep ==
    mgmt.pc \in {"subscribe_callback", "unsubscribe_callback"} /\ mgmt'.pc # mgmt.pc

\* The Zeek plugin holds its lock neither while it publishes on the endpoint
\* nor while it calls subscribe_callback or unsubscribe_callback.
ZeekLockNotHeld ==
    /\ ZeekPublishStep => zlock # "publish"
    /\ ZeekAckStep => zlock # "manage"
    /\ ZeekCallbackStep => zlock # "manage"

\* C13 (as stated): the backbone has released its lock when it enqueues into
\* an inbox, and the Zeek plugin holds its lock neither while publishing nor
\* while calling the callbacks.
C13_NoLockAcrossEnqueue ==
    [][/\ (\E q \in Queues : Len(inbox'[q]) > Len(inbox[q])) => lock = "free"
       /\ ZeekLockNotHeld]_vars

\* C13 (amended): the backbone enqueues into the inboxes with its lock held
\* and keeps it until the fan-out is over; the Zeek plugin holds its lock
\* neither while publishing nor while calling the callbacks.
C13_FanOutUnderLock ==
    [][/\ InmemFanOutStep => (lock = "provision" /\ lock' = "provision")
       /\ RabbitFanOutStep => (lock = "consumer" /\ lock' = "consumer")
       /\ ZeekLockNotHeld]_vars

\* The worker has just enqueued a message with the lock held, into an inbox
\* from which the plugin has already published.
C13_Witness ==
    /\ worker.pc = "release"
    /\ lock = "provision"
    /\ \E q \in Queues :
          /\ inbox[q] # <<>>
          /\ inbox[q][Len(inbox[q])].id = worker.msg.id
          /\ \E i \in 1..Len(endpoint) : endpoint[i].q = q

\* ------------------------------------------------------------------ draining

\* C14: the entry of a subscription is deleted only when its inbox is empty,
\* so the inbox of a deleted entry holds no message.
C14_DrainedBeforeDelete ==
    \A q \in Queues : born[q].deleted => inbox[q] = <<>>

\* ------------------------------------------------------------------ failed acknowledgment

\* C15: when the manage thread has received a Subscription and the
\* acknowledgment was not published because of a transport error, the
\* subscription is dropped (no callback, no entry) and the thread waits for
\* the next management event.
C15_ManageSurvivesAckError ==
    [][(mgmt.pc = "wait" /\ nevents' = nevents + 1 /\ Len(Acks') = Len(Acks)
          /\ mgmt'.task.kind = "Subscription")
         => (mgmt'.pc = "wait" /\ zsubs' = zsubs /\ subscriptions' = subscriptions)]_vars

\* ------------------------------------------------------------------ task_done

\* A step in which publish takes msg from an inbox.
ZeekTakes(msg) ==
    /\ pub.pc = "loop"
    /\ inbox[Head(pub.ready)] # <<>>
    /\ Head(inbox[Head(pub.ready)]) = msg
    /\ inbox' # inbox

\* C16: publish has called task_done on an inbox as often as it has taken a
\* message from it, and taking a sentinel or a message without a Zeek
\* mapping publishes nothing.
C16_TaskDoneForEveryGet ==
    [][/\ \A q \in Queues : born'[q].done = born'[q].taken
       /\ \A q \in Queues : \A i \in 1..Len(inbox[q]) :
              (/\ ZeekTakes(inbox[q][i])
               /\ \/ inbox[q][i] = NoneMsg
                  \/ map_to_broker(inbox[q][i], module_namespace) = Returned(NoEvent))
                 => endpoint' = endpoint]_vars

\* ------------------------------------------------------------------ RabbitMQ shutdown

\* C17: once the consumer thread has returned because the broker closed the
\* connection, the publisher thread eventually stops too.
C17_SiblingStopped ==
    (consumer.pc = "exited") ~> (worker.pc = "stopped")

\* ------------------------------------------------------------------ round robin

\* C18: in one pass of the publish loop no inbox has a second message taken:
\* a reader is in the list of ready readers once, and the inbox a message is
\* taken from has not been handled since the dict was copied.
C18_OnePerInboxPerPass ==
    [][/\ \A i, j \in 1..Len(pub'.ready) : i # j => pub'.ready[i] # pub'.ready[j]
       /\ \A q \in Queues :
              born'[q].taken > born[q].taken
                  => (q \notin pub.handled /\ born'[q].taken = born[q].taken + 1)]_vars

\* Both inboxes were ready and had one message handled in the same pass,
\* and one of them still holds a message.
C18_Witness ==
    /\ pub.handled = {1, 2}
    /\ born[1].taken = 1
    /\ born[2].taken = 1
    /\ \E q \in Queues : inbox[q] # <<>>

\* ------------------------------------------------------------------ subscription order

\* The acknowledgment that carries p2p_topic has been published.
Acknowledged(p2p_topic) ==
    \E i \in 1..Len(Acks) : Acks[i].event.args = <<p2p_topic>>

\* C19: subscribe_callback is called after the acknowledgment was published
\* and before the entry is inserted; the entry is inserted after the callback
\* has registered the inbox; publish never publishes on a p2p topic that has
\* not been acknowledged.
C19_AckCallbackInsert ==
    [][/\ ZeekCallbackStep /\ mgmt.pc = "subscribe_callback"
            => /\ Acknowledged(mgmt.p2p_topic)
               /\ DictGet(zsubs, mgmt.p2p_topic) # mgmt.q
               /\ <<mgmt.task.topic, mgmt.q>> \in Pairs(subscriptions')
       /\ ZeekInsertStep
            => /\ Acknowledged(mgmt.p2p_topic)
               /\ <<mgmt.task.topic, mgmt.q>> \in Pairs(subscriptions)
               /\ DictGet(zsubs', mgmt.p2p_topic) = mgmt.q
       /\ ZeekPublishStep => Acknowledged(endpoint'[Len(endpoint')].topic)]_vars

\* A subscription went through acknowledgment, callback and insert, and an
\* event was published on its p2p topic.
C19_Witness ==
    /\ mgmt.pc = "wait"
    /\ zsubs # <<>>
    /\ \E i \in 1..Len(endpoint) :
          /\ endpoint[i].q # 0
          /\ DictGet(zsubs, endpoint[i].topic) = endpoint[i].q
          /\ Acknowledged(endpoint[i].topic)

\* ------------------------------------------------------------------ unsubscribe callback

\* C20: unsubscribe_callback is called for a p2p topic that is a key of the
\* dict, with the p2p topic less its last ten characters and with the inbox
\* stored under the key, both as passed to subscribe_callback before, and
\* not a second time; a management event that is not an accepted
\* Subscription and finds no entry changes neither the dict nor the registry.
C20_UnsubscribeCallback ==
    [][/\ ZeekCallbackStep /\ mgmt.pc = "unsubscribe_callback"
            => /\ DictGet(zsubs, mgmt.task.topic) = mgmt.q
               /\ Len(mgmt.threatbus_topic) = Len(mgmt.task.topic) - 10
               /\ StartsWith(mgmt.task.topic, mgmt.threatbus_topic)
               /\ mgmt.threatbus_topic \in hist.subscribed[mgmt.q]
               /\ mgmt.threatbus_topic \notin hist.unsubscribed[mgmt.q]
       /\ (mgmt.pc = "wait" /\ nevents' = nevents + 1 /\ mgmt'.pc = "wait")
            => /\ zsubs' = zsubs
               /\ subscriptions' = subscriptions
               /\ hist' = hist]_vars

\* A subscription was made and revoked, and a second Unsubscription for its
\* p2p topic was received afterwards.
C20_Witness ==
    /\ mgmt.pc = "wait"
    /\ nextq = 1
    /\ nevents = 3
    /\ born[1].deleted
    /\ hist.unsubscribed[1] # {}
    /\ zsubs = <<>>

\* ------------------------------------------------------------------ duplicates

\* C23: a fan-out step enqueues the dispatched message at most once into any
\* one inbox.
C23_AtMostOncePerInbox ==
    [][(InmemFanOutStep \/ RabbitFanOutStep)
          => \A q \in Queues : Len(inbox'[q]) <= Len(inbox[q]) + 1]_vars

\* ------------------------------------------------------------------ RabbitMQ publisher

\* C24: every basic_publish of the publisher thread names an exchange that
\* exists on the broker at that moment.
C24_ExchangeDeclared ==
    \A i \in 1..Len(hist.published) : hist.published[i].declared

\* The publisher thread takes a message from the in-queue.
PublisherTakes == backbone = "rabbitmq" /\ Len(inq') < Len(inq)

\* The exchange named after a kind of message.
ExchangeNamedAfter(type) ==
    CASE type = "Intel" -> "intel"
      [] type = "Sighting" -> "sightings"
      [] type = "SnapshotRequest" -> "snapshot-requests"
      [] type = "SnapshotEnvelope" -> "snapshot-envelopes"

\* C22: a message the publisher thread takes from the in-queue is handed to
\* basic_publish at most once, not having been published before, for the
\* exchange of its kind and with the empty routing key; a message of any
\* other kind is not published and leaves the thread in its loop.
C22_PublishedByKind ==
    [][PublisherTakes =>
         LET msg == Head(inq)
             old == hist.published
             new == hist'.published
         IN  IF msg.type \in {"Intel", "Sighting", "SnapshotRequest", "SnapshotEnvelope"}
             THEN \/ new = old
                  \/ /\ Len(new) = Len(old) + 1
                     /\ SubSeq(new, 1, Len(old)) = old
                     /\ new[Len(new)].exchange = ExchangeNamedAfter(msg.type)
                     /\ new[Len(new)].routing_key = <<>>
                     /\ new[Len(new)].id = msg.id
                     /\ \A i \in 1..Len(old) : old[i].id # msg.id
             ELSE /\ new = old
                  /\ rq' = rq
                  /\ worker' = worker
                  /\ worker.pc # "dead"]_vars

\* One of two messages put on the in-queue went to the intel exchange; the
\* other one was taken and not published, and the thread is in its loop.
C22_Witness ==
    /\ consumer.pc = "setup"
    /\ consumer.queue = "intel"
    /\ nmsg = 2
    /\ inq = <<>>
    /\ Len(hist.published) = 1
    /\ hist.published[1].exchange = "intel"
    /\ worker.pc = "get"

\* ------------------------------------------------------------------ Zeek publish liveness

\* map_to_broker turns the message into an event.
Translatable(msg) ==
    /\ msg # NoneMsg
    /\ ~map_to_broker(msg, module_namespace).raised
    /\ map_to_broker(msg, module_namespace).value # NoEvent

\* C21: while a translatable message waits in the inbox of a subscription
\* that is in the adapter's map, the publish thread is running, so that a
\* later snapshot holds the subscription and a later pass publishes the
\* message on its p2p topic.  Only the publish thread publishes: once it has
\* ended, the message is never published although the subscription stays.
C21_PublishThreadServesInbox ==
    \A i \in 1..Len(zsubs) :
        (\E j \in 1..Len(inbox[zsubs[i].q]) : Translatable(inbox[zsubs[i].q][j]))
            => pub.pc # "dead"

====
